---- MODULE Spec2Model ----
(***************************************************************************)
(* State-machine model of the document ingestion pipeline of the AI        *)
(* resume analyzer (src/src/utils/fileHandler.js) and of the retrying      *)
(* remote inference call (callGeminiAPI in the App component).             *)
(*                                                                         *)
(* Strings are modelled as tuples of one-character strings so that trim,   *)
(* length and concatenation are computed, not assumed.                     *)
(***************************************************************************)
EXTENDS Integers, Sequences, FiniteSets, TLC

VARIABLES
    task,            \* which entry point the caller invoked
    files,           \* the FileList handed to the entry point
    vpc,             \* position of the validation caller
    vout,            \* value returned by validateFile / validateMultipleFiles
    bpc,             \* position inside processMultipleFiles
    idx,             \* loop variable i of processMultipleFiles
    validFiles,      \* validation.validFiles inside processMultipleFiles
    results,         \* results array of processMultipleFiles
    batchError,      \* error with which processMultipleFiles rejected
    batchLog,        \* processMultipleFiles: progress events emitted, with
                     \* the start and the collection of each extraction
    fpc,             \* position inside extractTextFromFile
    cur,             \* the file argument of extractTextFromFile
    extractedText,   \* local extractedText
    processingMethod,\* local processingMethod
    caught,          \* error caught by the try/catch of extractTextFromFile
    fileOut,         \* settled value of the promise of extractTextFromFile
    pdfText,         \* <<t>> once extractTextFromPDF has returned t for the file
    ocrCalls,        \* number of processScannedPDF invocations for the file
    pageNo,          \* loop variable i of processScannedPDF
    totalPages,      \* pdf.numPages inside processScannedPDF
    fullText,        \* local fullText of processScannedPDF
    onProgress,      \* extractTextFromFile was given a progress callback
    fileProgress,    \* values passed to that callback, in order
    backendLog,      \* log events of the running Tesseract.recognize call
    apiKey,          \* import.meta.env.VITE_GEMINI_API_KEY is set
    apc,             \* position inside callGeminiAPI
    attempt,         \* local attempt
    delay,           \* local delay (ms)
    requests,        \* fetch calls issued by the current callGeminiAPI call
    waits,           \* backoff waits scheduled, in order (ms)
    replies,         \* outcome of each request, in order
    now,             \* time the timers of callGeminiAPI have let pass (ms)
    sentAt,          \* time at which each request was issued, in order
    apiOut,          \* settled value of the promise of callGeminiAPI
    spc,             \* position inside isScannedPDF
    scanDoc,         \* the PDF handed to isScannedPDF: its pages' text items
    scanIdx,         \* loop variable i of isScannedPDF
    maxPagesToCheck, \* local maxPagesToCheck
    totalTextLength, \* local totalTextLength
    pagesRead,       \* page numbers whose text content was read, in order
    scanFault,       \* the await of isScannedPDF that rejected, "" if none
    scanOut,         \* settled value of the promise of isScannedPDF
    isProcessing,    \* EnhancedFileUpload: state isProcessing
    uploadedFiles,   \* EnhancedFileUpload: state uploadedFiles
    inFlight,        \* file lists of the handleFiles runs awaiting their batch
    uploads,         \* handleFiles runs started so far
    appUploadedFiles,\* App: state uploadedFiles
    resume,          \* App: state resume
    uploadError,     \* App: state uploadError
    lastHandler,     \* the handler of the upload component that ran last
    lastResults,     \* <<r>> once a handleFiles run got the results r, latest
    pdfjsLibPromise, \* module variable pdfjsLibPromise: 0 for null, else the
                     \* number of the script load whose promise it holds
    scripts,         \* state of the promise of each script load, in order
    pdfCallers,      \* the PDF operations that called loadPdfJs
    jobDescription,  \* App: state jobDescription
    loading,         \* App: state loading
    loadingQuestions,\* App: state loadingQuestions
    analysisResult,  \* App: state analysisResult, << >> for null
    internships,     \* App: state internships
    interviewQuestions, \* App: state interviewQuestions
    appError,        \* App: state error
    questionsError,  \* App: state questionsError
    analyzeRun,      \* the latest handleAnalyze run and its two remote calls
    questionRun,     \* the latest handleGenerateQuestions run
    analyses,        \* handleAnalyze runs that passed the input check
    analyzeCalls,    \* remote calls issued by the latest handleAnalyze call
    questionsEpoch   \* value of analyses when the request was started whose
                     \* response filled interviewQuestions, 0 while empty

vars == << task, files, vpc, vout, bpc, idx, validFiles, results, batchError,
           batchLog, onProgress, fileProgress, backendLog,
           fpc, cur, extractedText, processingMethod, caught, fileOut,
           pdfText, ocrCalls, pageNo, totalPages, fullText,
           apiKey, apc, attempt, delay, requests, waits, replies, now,
           sentAt, apiOut,
           spc, scanDoc, scanIdx, maxPagesToCheck, totalTextLength,
           pagesRead, scanFault, scanOut,
           isProcessing, uploadedFiles, inFlight, uploads, appUploadedFiles,
           resume, uploadError, lastHandler, lastResults,
           pdfjsLibPromise, scripts, pdfCallers,
           jobDescription, loading, loadingQuestions, analysisResult,
           internships, interviewQuestions, appError, questionsError,
           analyzeRun, questionRun, analyses, analyzeCalls, questionsEpoch >>

validateVars == << vpc, vout >>
batchVars == << bpc, idx, validFiles, results, batchError, batchLog >>
progressVars == << onProgress, fileProgress, backendLog >>
fileVars == << fpc, cur, extractedText, processingMethod, caught, fileOut,
               pdfText, ocrCalls, pageNo, totalPages, fullText, progressVars >>
apiVars == << apiKey, apc, attempt, delay, requests, waits, replies, now,
             sentAt, apiOut >>
scanVars == << spc, scanDoc, scanIdx, maxPagesToCheck, totalTextLength,
              pagesRead, scanFault, scanOut >>
pdfVars == << pdfjsLibPromise, scripts, pdfCallers >>
analyzeVars == << jobDescription, loading, loadingQuestions, analysisResult,
                 internships, interviewQuestions, appError, questionsError,
                 analyzeRun, questionRun, analyses, analyzeCalls,
                 questionsEpoch >>
uiVars == << isProcessing, uploadedFiles, inFlight, uploads,
            appUploadedFiles, resume, uploadError, lastHandler, lastResults >>

----------------------------------------------------------------------------
(* Bounds of the model *)

\* longest run of leading / trailing whitespace in an input string
MaxPad == 1
\* how many files beyond MAX_FILES a selected batch may hold
MaxOver == 1
\* longest batch whose files are run through extraction
MaxProc == 2
\* most pages of a PDF document
MaxPages == 2
\* most pages of a PDF handed to isScannedPDF
MaxScanPages == 4
\* most log events of one Tesseract.recognize call
MaxLogEvents == 2
\* most files of one selection in the upload component
MaxUploadFiles == 3
\* most selections made in the upload component
MaxUploads == 2
\* PDF operations started in one page session
MaxCallers == 3
\* handleAnalyze runs that pass the input check
MaxAnalyses == 2
----------------------------------------------------------------------------
(* Program constants *)

MAX_FILE_SIZE == 10 * 1024 * 1024

MAX_FILES == 5

\* extractedText.length < 50 / totalTextLength < 50
ScanThreshold == 50

\* callGeminiAPI = async (payload, maxRetries = 3)
DefaultMaxRetries == 3

\* let delay = 1000
InitialDelay == 1000

\* the own keys of SUPPORTED_FILE_TYPES
SUPPORTED_FILE_TYPES ==
    { "application/pdf", "text/plain",
      "application/vnd.openxmlformats-officedocument.wordprocessingml.document",
      "application/msword", "image/png", "image/jpeg", "image/jpg" }

\* property names every object literal inherits from Object.prototype and
\* that a (lower-case) File.type can spell
\* Math.min(pdf.numPages, 3)
ScanSampleLimit == 3

\* return totalTextLength < 50
ScanDetectThreshold == 50

InheritedKeys == { "constructor" }

----------------------------------------------------------------------------
(* Strings *)

None == [none |-> TRUE]

Rep(c, n) == [i \in 1..n |-> c]

IsSpace(c) == c \in {" ", "\n"}

RECURSIVE TrimStart(_)
TrimStart(s) ==
    IF s = << >> THEN s
    ELSE IF IsSpace(Head(s)) THEN TrimStart(Tail(s)) ELSE s

RECURSIVE TrimEnd(_)
TrimEnd(s) ==
    IF s = << >> THEN s
    ELSE IF IsSpace(s[Len(s)]) THEN TrimEnd(SubSeq(s, 1, Len(s) - 1)) ELSE s

\* String.prototype.trim
Trim(s) == TrimEnd(TrimStart(s))

\* (size / 1024 / 1024).toFixed(2), as a count of hundredths of a MiB
ToFixed2MB(size) == (size * 100 + 524288) \div 1048576

\* an error message: its fixed text and the values interpolated into it
Msg(text, size, type) == [text |-> text, size |-> size, type |-> type]

----------------------------------------------------------------------------
(* validateFile, validateMultipleFiles *)

TypeLookupWithoutJpg(type) ==
    type \in (SUPPORTED_FILE_TYPES \ {"image/jpg"}) \cup InheritedKeys

\* SUPPORTED_FILE_TYPES[file.type] is truthy
TypeLookup(type) == type \in SUPPORTED_FILE_TYPES \cup InheritedKeys

SizeExceedsInclusive(size) == size >= MAX_FILE_SIZE

SizeExceeds(size) == size > MAX_FILE_SIZE

validateFile(file) ==
    IF SizeExceeds(file.size)
    THEN [success |-> FALSE,
          message |-> Msg("File size exceeds 10MB limit. Current size: ",
                          ToFixed2MB(file.size), "")]
    ELSE IF ~TypeLookup(file.type)
    THEN [success |-> FALSE,
          message |-> Msg("Unsupported file type: ", -1, file.type)]
    ELSE [success |-> TRUE, message |-> Msg("File is valid", -1, "")]

TooManyFilesOffByOne(fs) == Len(fs) > MAX_FILES + 1

TooManyFiles(fs) == Len(fs) > MAX_FILES

RECURSIVE ValidateLoop(_, _, _, _)
ValidateLoop(fs, i, valid, errors) ==
    IF i > Len(fs) THEN [validFiles |-> valid, errors |-> errors]
    ELSE LET validation == validateFile(fs[i])
         IN  IF validation.success
             THEN ValidateLoop(fs, i + 1, Append(valid, fs[i]), errors)
             ELSE ValidateLoop(fs, i + 1, valid,
                     Append(errors, [name |-> fs[i].name,
                                     message |-> validation.message]))

validateMultipleFilesLenient(fs) ==
    IF TooManyFiles(fs)
    THEN [success |-> FALSE, validFiles |-> << >>,
          errors |-> << [name |-> "",
                         message |-> Msg("Maximum files allowed", Len(fs), "")] >>]
    ELSE LET r == ValidateLoop(fs, 1, << >>, << >>)
         IN  [success |-> TRUE,
              validFiles |-> r.validFiles, errors |-> r.errors]

validateMultipleFiles(fs) ==
    IF TooManyFiles(fs)
    THEN [success |-> FALSE, validFiles |-> << >>,
          errors |-> << [name |-> "",
                         message |-> Msg("Maximum files allowed", Len(fs), "")] >>]
    ELSE LET r == ValidateLoop(fs, 1, << >>, << >>)
         IN  [success |-> Len(r.errors) = 0,
              validFiles |-> r.validFiles, errors |-> r.errors]

----------------------------------------------------------------------------
(* Inputs *)

Sizes == { 1, MAX_FILE_SIZE, MAX_FILE_SIZE + 1, 11 * 1024 * 1024 }

Types == SUPPORTED_FILE_TYPES \cup InheritedKeys \cup { "application/zip", "" }

\* every file a caller may hand to validateFile or extractTextFromFile
AllFiles == [name : {"cv"}, size : Sizes, type : Types]

\* the files a batch is drawn from; a batch file is named after its position
BatchSizes == { 1, MAX_FILE_SIZE + 1 }

BatchTypes ==
    { "text/plain", "application/pdf", "application/msword", "image/png",
      "constructor", "application/zip" }

ShortTypes == { "text/plain", "application/zip" }

NameOf(i) == "file" \o ToString(i)

BatchesOf(n, sizes, types) ==
    { [i \in 1..n |-> [name |-> NameOf(i), size |-> d[i][1], type |-> d[i][2]]] :
        d \in [1..n -> sizes \X types] }

\* batches past the file-count limit
LongBatches ==
    UNION { BatchesOf(n, {1}, ShortTypes) :
              n \in (MAX_FILES + 1)..(MAX_FILES + MaxOver) }

\* batches within the file-count limit, for validation alone
ShortBatches ==
    UNION { BatchesOf(n, BatchSizes, ShortTypes) : n \in 0..MAX_FILES }

\* batches whose files are run through extraction
ProcBatches ==
    UNION { BatchesOf(n, BatchSizes, BatchTypes) : n \in 1..MaxProc }

Pad(n) == Rep(" ", n)

Padded(bodies) ==
    { Pad(l) \o b \o Pad(t) : l \in 0..MaxPad, t \in 0..MaxPad, b \in bodies }

\* contents of a text file, a Word document's raw text, an OCR result
Strings == Padded({ << >>, <<"a">>, <<"a", " ", "b">> })

\* the same for the files of a batch
BatchStrings == { << >>, <<"a">>, <<" ", "b">> }

\* lengths of one PDF page's text layer, around the scan threshold
PageLens ==
    { 0, 1, ScanThreshold \div 2 - 1, ScanThreshold \div 2,
      ScanThreshold - 1, ScanThreshold }

PageTexts == { Pad(l) \o Rep("a", n) : l \in 0..MaxPad, n \in PageLens }

BatchPageTexts == { << >>, Rep("a", ScanThreshold - 1), Rep("a", ScanThreshold) }

\* what OCR of one rendered page may read
OcrTexts == { << >>, <<" ">>, <<"a">>, <<" ", "b", " ">> }

InBatch == task = "processMultipleFiles"

TextInputs == IF InBatch THEN BatchStrings ELSE Strings

PdfInputs ==
    IF InBatch THEN { <<p>> : p \in BatchPageTexts }
    ELSE UNION { [1..n -> PageTexts] : n \in 1..MaxPages }

OcrInputs == IF InBatch THEN { << >>, <<"a">> } ELSE OcrTexts

----------------------------------------------------------------------------
(* Idle components *)

Pending == [state |-> "pending"]

ValidateIdle == vpc = "idle" /\ vout = None

BatchIdle ==
    /\ bpc = "idle" /\ idx = 0 /\ validFiles = << >>
    /\ results = << >> /\ batchError = None /\ batchLog = << >>

FileIdle ==
    /\ fpc = "idle" /\ cur = None /\ extractedText = << >>
    /\ processingMethod = "" /\ caught = None /\ fileOut = Pending
    /\ pdfText = << >> /\ ocrCalls = 0 /\ pageNo = 0 /\ totalPages = 0
    /\ fullText = << >>
    /\ onProgress = FALSE /\ fileProgress = << >> /\ backendLog = << >>

ApiIdle ==
    /\ apiKey = FALSE /\ apc = "idle" /\ attempt = 0 /\ delay = 0
    /\ requests = 0 /\ waits = << >> /\ replies = << >> /\ apiOut = Pending
    /\ now = 0 /\ sentAt = << >>

ScanIdle ==
    /\ spc = "idle" /\ scanDoc = << >> /\ scanIdx = 0 /\ maxPagesToCheck = 0
    /\ totalTextLength = 0 /\ pagesRead = << >> /\ scanFault = ""
    /\ scanOut = Pending

\* no PDF operation has been started: let pdfjsLibPromise = null
PdfIdle == pdfjsLibPromise = 0 /\ scripts = << >> /\ pdfCallers = << >>

\* handleAnalyze has not been called: no remote call of it exists
NoRun == [pc |-> "idle", ats |-> "none", intern |-> "none", reply |-> ""]

\* handleGenerateQuestions has not been called
NoQuestionRun == [pc |-> "idle", epoch |-> 0]

\* the App as mounted: the useState initial values of the analysis state
AnalyzeIdle ==
    /\ jobDescription = "" /\ loading = FALSE /\ loadingQuestions = FALSE
    /\ analysisResult = << >> /\ internships = << >>
    /\ interviewQuestions = << >> /\ appError = "" /\ questionsError = ""
    /\ analyzeRun = NoRun /\ questionRun = NoQuestionRun
    /\ analyses = 0 /\ analyzeCalls = 0 /\ questionsEpoch = 0

\* the empty string as an error message
EmptyMessage == [text |-> ""]

\* the upload component and the App as mounted: the useState initial values
UploadIdle ==
    /\ isProcessing = FALSE /\ uploadedFiles = << >> /\ inFlight = << >>
    /\ uploads = 0 /\ appUploadedFiles = << >> /\ resume = << >>
    /\ uploadError = EmptyMessage /\ lastHandler = "" /\ lastResults = << >>

----------------------------------------------------------------------------
(* Callers of the validator *)

CallValidateFile ==
    /\ task = "validateFile" /\ vpc = "call"
    /\ vout' = validateFile(files[1])
    /\ vpc' = "done"
    /\ UNCHANGED << task, files, pdfVars, analyzeVars, uiVars,
                    scanVars, batchVars, fileVars, apiVars >>

CallValidateMultipleFiles ==
    /\ task = "validateMultipleFiles" /\ vpc = "call"
    /\ vout' = validateMultipleFiles(files)
    /\ vpc' = "done"
    /\ UNCHANGED << task, files, pdfVars, analyzeVars, uiVars,
                    scanVars, batchVars, fileVars, apiVars >>

\* a caller hands validateFile one file, of a type the table lists or of
\* another type, or hands validateMultipleFiles a batch
InitValidate ==
    /\ \/ /\ task = "validateFile"
          /\ files \in { <<f>> : f \in { g \in AllFiles :
                                          g.type \in SUPPORTED_FILE_TYPES } }
       \/ /\ task = "validateFile"
          /\ files \in { <<f>> : f \in { g \in AllFiles :
                                          g.type \notin SUPPORTED_FILE_TYPES } }
       \/ /\ task = "validateMultipleFiles"
          /\ files \in ShortBatches \cup LongBatches
    /\ vpc = "call" /\ vout = None
    /\ BatchIdle /\ FileIdle /\ ApiIdle /\ ScanIdle /\ UploadIdle
    /\ PdfIdle /\ AnalyzeIdle

NextValidate == CallValidateFile \/ CallValidateMultipleFiles

SpecValidate == InitValidate /\ [][NextValidate]_vars

----------------------------------------------------------------------------
(* extractTextFromFile *)

SuccessResultTrimmed(file, text, method) ==
    [success |-> TRUE, text |-> Trim(text), method |-> method,
     fileName |-> file.name, fileSize |-> file.size, fileType |-> file.type]

SuccessResult(file, text, method) ==
    [success |-> TRUE, text |-> text, method |-> method,
     fileName |-> file.name, fileSize |-> file.size, fileType |-> file.type]

FailureResultWithText(file, error) ==
    [success |-> FALSE, error |-> error, text |-> << >>, method |-> "",
     fileName |-> file.name, fileSize |-> file.size, fileType |-> file.type]

\* the catch block of extractTextFromFile
FailureResult(file, error) ==
    [success |-> FALSE, error |-> error,
     fileName |-> file.name, fileSize |-> file.size, fileType |-> file.type]

Fulfilled(v) == [state |-> "fulfilled", value |-> v]

Rejected(e) == [state |-> "rejected", error |-> e]

\* a throw inside the try block: caught and returned as data
ThrowInTry(error) ==
    /\ caught' = error
    /\ fileOut' = Fulfilled(FailureResult(cur, error))
    /\ fpc' = "settled"

ThrowOutsideTryCaught(error) ==
    /\ fileOut' = Fulfilled(FailureResult(cur, error))
    /\ fpc' = "settled"

\* a throw outside the try block: the promise rejects
ThrowOutsideTry(error) ==
    /\ fileOut' = Rejected(error)
    /\ fpc' = "settled"

\* const validation = validateFile(file); if (!validation.success) throw
FileValidate ==
    /\ fpc = "validate"
    /\ LET validation == validateFile(cur)
       IN  IF ~validation.success
           THEN ThrowOutsideTry(validation.message)
           ELSE fpc' = "read" /\ UNCHANGED fileOut
    /\ UNCHANGED << task, files, pdfVars, analyzeVars, uiVars, scanVars,
                    validateVars, batchVars, apiVars, cur, progressVars,
                    extractedText, processingMethod, caught, pdfText,
                    ocrCalls, pageNo, totalPages, fullText >>

\* const fileBuffer = await file.arrayBuffer()
FileReadBuffer ==
    /\ fpc = "read"
    /\ \E ok \in BOOLEAN :
         IF ok THEN fpc' = "switch" /\ UNCHANGED fileOut
         ELSE ThrowOutsideTry(Msg("The file could not be read", -1, ""))
    /\ UNCHANGED << task, files, pdfVars, analyzeVars, uiVars, scanVars,
                    validateVars, batchVars, apiVars, cur, progressVars,
                    extractedText, processingMethod, caught, pdfText,
                    ocrCalls, pageNo, totalPages, fullText >>

\* case 'text/plain': FileReader.readAsText
ExtractPlainText ==
    /\ fpc = "switch" /\ cur.type = "text/plain"
    /\ \/ \E s \in TextInputs :
            /\ extractedText' = s
            /\ processingMethod' = "Direct text reading"
            /\ fpc' = "check"
            /\ UNCHANGED << caught, fileOut >>
       \/ /\ ThrowInTry(Msg("Failed to read text file", -1, ""))
          /\ UNCHANGED << extractedText, processingMethod >>
    /\ UNCHANGED << task, files, pdfVars, analyzeVars, uiVars, scanVars,
                    validateVars, batchVars, apiVars, cur, progressVars,
                    pdfText, ocrCalls, pageNo, totalPages, fullText >>

RECURSIVE JoinPages(_)
\* fullText += items.join(' ') + '\n', over the pages in order
JoinPages(pages) ==
    IF pages = << >> THEN << >>
    ELSE Head(pages) \o <<"\n">> \o JoinPages(Tail(pages))

\* extractTextFromPDF, given the text layer of each page
extractTextFromPDF(pages) == Trim(JoinPages(pages))

NeedsOcrInclusive(text) == Len(text) <= ScanThreshold

\* if (extractedText.length < 50)
NeedsOcr(text) == Len(text) < ScanThreshold

\* if (onProgress) onProgress(value)
Emit(events, value) == IF onProgress THEN Append(events, value) ELSE events

\* case 'application/pdf': extractTextFromPDF, then the fallback decision;
\* if (onProgress) onProgress(0) before processScannedPDF
ExtractPdfText ==
    /\ fpc = "switch" /\ cur.type = "application/pdf"
    /\ \/ \E pages \in PdfInputs :
            LET text == extractTextFromPDF(pages)
            IN  /\ pdfText' = <<text>>
                /\ totalPages' = Len(pages)
                /\ IF NeedsOcr(text)
                   THEN /\ ocrCalls' = ocrCalls + 1
                        /\ pageNo' = 1
                        /\ fullText' = << >>
                        /\ fileProgress' = Emit(fileProgress, 0)
                        /\ fpc' = "ocr"
                        /\ UNCHANGED << extractedText, processingMethod >>
                   ELSE /\ extractedText' = text
                        /\ processingMethod' = "PDF text extraction"
                        /\ fpc' = "check"
                        /\ UNCHANGED << ocrCalls, pageNo, fullText,
                                        fileProgress >>
                /\ UNCHANGED << caught, fileOut >>
       \/ /\ ThrowInTry(Msg("Failed to extract text from PDF: ", -1, ""))
          /\ UNCHANGED << extractedText, processingMethod, pdfText, ocrCalls,
                          pageNo, totalPages, fullText, fileProgress >>
    /\ UNCHANGED << task, files, pdfVars, analyzeVars, uiVars, scanVars,
                    validateVars, batchVars, apiVars, cur, onProgress,
                    backendLog >>

PageFailureSkipsPage(error) ==
    /\ IF pageNo < totalPages
       THEN /\ pageNo' = pageNo + 1
            /\ UNCHANGED << fpc, extractedText, processingMethod >>
       ELSE /\ extractedText' = Trim(fullText)
            /\ processingMethod' = "OCR (scanned PDF)"
            /\ fpc' = "check"
            /\ UNCHANGED pageNo
    /\ UNCHANGED << caught, fileOut, fullText >>

\* getPage, render or extractTextFromImage rejects inside the page loop: the
\* catch of processScannedPDF rethrows, which leaves the loop and is caught
\* by extractTextFromFile
PageFailure(error) ==
    /\ ThrowInTry(error)
    /\ UNCHANGED << extractedText, processingMethod, pageNo, fullText >>

PageProgressAfterPage(i, n) == (i * 200 + n) \div (2 * n)

\* Math.round(((i - 1) / totalPages) * 100)
PageProgress(i, n) == ((i - 1) * 200 + n) \div (2 * n)

ForwardedWhateverStatus(m, given) ==
    IF given THEN << (m.progress + 5) \div 10 >> ELSE << >>

\* the logger of extractTextFromImage, for a log event m whose progress is
\* given in thousandths: what it passes to the callback of the call, if any:
\* if (m.status === 'recognizing text' && onProgress)
\*     onProgress(Math.round(m.progress * 100))
Forwarded(m, given) ==
    IF m.status = "recognizing text" /\ given
    THEN << (m.progress + 5) \div 10 >>
    ELSE << >>

\* log events of the OCR backend: a phase and a fraction in thousandths
TesseractEvents ==
    IF InBatch
    THEN { [status |-> "recognizing text", progress |-> 500] }
    ELSE { [status |-> "loading tesseract core", progress |-> 1000],
           [status |-> "recognizing text", progress |-> 5],
           [status |-> "recognizing text", progress |-> 994],
           [status |-> "recognizing text", progress |-> 1000] }

\* the backend reports a log event during Tesseract.recognize: for an image
\* file the call was given extractTextFromFile's callback, for a page of a
\* scanned PDF it was given none
TesseractLog ==
    /\ fpc \in {"recognize", "ocr"}
    /\ Len(backendLog) < MaxLogEvents
    /\ \E m \in TesseractEvents :
         /\ backendLog' = Append(backendLog, m)
         /\ fileProgress' =
              fileProgress \o Forwarded(m, fpc = "recognize" /\ onProgress)
    /\ UNCHANGED << task, files, pdfVars, analyzeVars, uiVars, scanVars,
                    validateVars, batchVars, apiVars, fpc, cur,
                    extractedText, processingMethod, caught, fileOut,
                    pdfText, ocrCalls, pageNo, totalPages, fullText,
                    onProgress >>

\* one iteration of the page loop of processScannedPDF: report the page's
\* progress, render the page, OCR the image, append; after the last page
\* report 100 and return fullText.trim(). A failure falls inside the loop,
\* after the page's report, or, for page 1, before the loop
OcrPage ==
    /\ fpc = "ocr"
    /\ \/ /\ \E s \in OcrInputs :
               LET text == fullText \o Trim(s) \o <<"\n", "\n">>
                   reported == Emit(fileProgress,
                                    PageProgress(pageNo, totalPages))
               IN  IF pageNo < totalPages
                   THEN /\ fullText' = text
                        /\ pageNo' = pageNo + 1
                        /\ fileProgress' = reported
                        /\ UNCHANGED << fpc, extractedText, processingMethod >>
                   ELSE /\ fullText' = text
                        /\ extractedText' = Trim(text)
                        /\ processingMethod' = "OCR (scanned PDF)"
                        /\ fileProgress' = Emit(reported, 100)
                        /\ fpc' = "check"
                        /\ UNCHANGED pageNo
          /\ UNCHANGED << caught, fileOut >>
       \/ /\ PageFailure(Msg("Failed to process scanned PDF: ", -1, ""))
          /\ \/ fileProgress' = Emit(fileProgress,
                                     PageProgress(pageNo, totalPages))
             \/ pageNo = 1 /\ UNCHANGED fileProgress
    /\ backendLog' = << >>
    /\ UNCHANGED << task, files, pdfVars, analyzeVars, uiVars, scanVars,
                    validateVars, batchVars, apiVars, cur,
                    pdfText, ocrCalls, totalPages, onProgress >>

WordTypes ==
    { "application/vnd.openxmlformats-officedocument.wordprocessingml.document",
      "application/msword" }

ImageTypes == { "image/png", "image/jpeg", "image/jpg" }

\* case Word document: extractTextFromDocx returns result.value.trim()
ExtractWord ==
    /\ fpc = "switch" /\ cur.type \in WordTypes
    /\ \/ \E s \in TextInputs :
            /\ extractedText' = Trim(s)
            /\ processingMethod' = "Word document extraction"
            /\ fpc' = "check"
            /\ UNCHANGED << caught, fileOut >>
       \/ /\ ThrowInTry(Msg("Failed to extract text from Word document: ", -1, ""))
          /\ UNCHANGED << extractedText, processingMethod >>
    /\ UNCHANGED << task, files, pdfVars, analyzeVars, uiVars, scanVars,
                    validateVars, batchVars, apiVars, cur, progressVars,
                    pdfText, ocrCalls, pageNo, totalPages, fullText >>

\* case image: if (onProgress) onProgress(0), then extractTextFromImage
\* calls Tesseract.recognize
ExtractImage ==
    /\ fpc = "switch" /\ cur.type \in ImageTypes
    /\ fileProgress' = Emit(fileProgress, 0)
    /\ fpc' = "recognize"
    /\ UNCHANGED << task, files, pdfVars, analyzeVars, uiVars, scanVars,
                    validateVars, batchVars, apiVars, cur,
                    extractedText, processingMethod, caught, fileOut,
                    pdfText, ocrCalls, pageNo, totalPages, fullText,
                    onProgress, backendLog >>

\* Tesseract.recognize settles: extractTextFromImage returns
\* result.data.text.trim() or throws the wrapped error
ImageRecognized ==
    /\ fpc = "recognize"
    /\ \/ \E s \in TextInputs :
            /\ extractedText' = Trim(s)
            /\ processingMethod' = "OCR (image)"
            /\ fpc' = "check"
            /\ UNCHANGED << caught, fileOut >>
       \/ /\ ThrowInTry(Msg("Failed to extract text from image: ", -1, ""))
          /\ UNCHANGED << extractedText, processingMethod >>
    /\ UNCHANGED << task, files, pdfVars, analyzeVars, uiVars, scanVars,
                    validateVars, batchVars, apiVars, cur, progressVars,
                    pdfText, ocrCalls, pageNo, totalPages, fullText >>

\* default: throw new Error(`Unsupported file type: ${file.type}`)
ExtractDefault ==
    /\ fpc = "switch"
    /\ cur.type \notin {"text/plain", "application/pdf"} \cup WordTypes \cup ImageTypes
    /\ ThrowInTry(Msg("Unsupported file type: ", -1, cur.type))
    /\ UNCHANGED << task, files, pdfVars, analyzeVars, uiVars, scanVars,
                    validateVars, batchVars, apiVars, cur, progressVars,
                    extractedText, processingMethod, pdfText, ocrCalls,
                    pageNo, totalPages, fullText >>

IsBlankWithoutTrim(text) == text = << >>

\* !extractedText || extractedText.trim().length === 0
IsBlank(text) == text = << >> \/ Len(Trim(text)) = 0

\* the empty-content check and the success return
FileCheck ==
    /\ fpc = "check"
    /\ IF IsBlank(extractedText)
       THEN ThrowInTry(Msg("No text content found in the file", -1, ""))
       ELSE /\ fileOut' = Fulfilled(SuccessResult(cur, extractedText, processingMethod))
            /\ fpc' = "settled"
            /\ UNCHANGED caught
    /\ UNCHANGED << task, files, pdfVars, analyzeVars, uiVars, scanVars,
                    validateVars, batchVars, apiVars, cur, progressVars,
                    extractedText, processingMethod, pdfText, ocrCalls,
                    pageNo, totalPages, fullText >>

FileStep ==
    \/ FileValidate
    \/ FileReadBuffer
    \/ ExtractPlainText
    \/ ExtractPdfText
    \/ OcrPage
    \/ TesseractLog
    \/ ExtractWord
    \/ ExtractImage
    \/ ImageRecognized
    \/ ExtractDefault
    \/ FileCheck

\* a caller invokes extractTextFromFile(file) on any file
InitFile ==
    /\ task = "extractTextFromFile"
    /\ files \in { <<f>> : f \in AllFiles }
    /\ ValidateIdle /\ BatchIdle /\ ApiIdle /\ ScanIdle /\ UploadIdle
    /\ PdfIdle /\ AnalyzeIdle
    /\ fpc = "validate" /\ cur = files[1] /\ extractedText = << >>
    /\ processingMethod = "" /\ caught = None /\ fileOut = Pending
    /\ pdfText = << >> /\ ocrCalls = 0 /\ pageNo = 0 /\ totalPages = 0
    /\ fullText = << >>
    /\ onProgress \in BOOLEAN /\ fileProgress = << >> /\ backendLog = << >>

SpecFile == InitFile /\ [][FileStep]_vars

----------------------------------------------------------------------------
(* processMultipleFiles *)

CollectSuccessesOnly(res, result) ==
    IF result.success THEN Append(res, result) ELSE res

\* results.push(result)
Collect(res, result) == Append(res, result)

ProgressEventZeroBased(i, total, name, progress) ==
    [kind |-> "progress", currentFile |-> i - 1, totalFiles |-> total,
     fileName |-> name, progress |-> progress]

\* the event object handed to the onProgress of processMultipleFiles
ProgressEvent(i, total, name, progress) ==
    [kind |-> "progress", currentFile |-> i, totalFiles |-> total,
     fileName |-> name, progress |-> progress]

RECURSIVE Tagged(_, _, _, _)
\* the callback handed to extractTextFromFile for the file at loop index i:
\* each value it receives is passed on tagged with i + 1, totalFiles and
\* the file's name
Tagged(values, i, total, name) ==
    IF values = << >> THEN << >>
    ELSE << ProgressEvent(i + 1, total, name, Head(values)) >>
         \o Tagged(Tail(values), i, total, name)

NextIndexSkips(i) == i + 2

\* i++
NextIndex(i) == i + 1

\* validateMultipleFiles(files); throw unless validation.success
BatchStart ==
    /\ bpc = "call"
    /\ LET validation == validateMultipleFiles(files)
       IN  IF ~validation.success
           THEN /\ batchError' = [text |-> "File validation failed: ",
                                  errors |-> validation.errors]
                /\ bpc' = "rejected"
                /\ UNCHANGED << idx, validFiles, results >>
                /\ UNCHANGED batchLog
           ELSE /\ validFiles' = validation.validFiles
                /\ batchLog' = << >>
                /\ results' = << >>
                /\ idx' = 0
                /\ bpc' = "loop"
                /\ UNCHANGED batchError
    /\ UNCHANGED << task, files, pdfVars, analyzeVars, uiVars,
                    scanVars, validateVars, fileVars, apiVars >>

\* the loop test; in the body, the first progress event of the file
\* (progress 0) and the call of extractTextFromFile(file, callback)
BatchNext ==
    /\ bpc = "loop"
    /\ IF idx < Len(validFiles)
       THEN /\ cur' = validFiles[idx + 1]
            /\ fpc' = "validate"
            /\ extractedText' = << >>
            /\ processingMethod' = ""
            /\ caught' = None
            /\ fileOut' = Pending
            /\ pdfText' = << >>
            /\ ocrCalls' = 0
            /\ pageNo' = 0
            /\ totalPages' = 0
            /\ fullText' = << >>
            /\ onProgress' = TRUE
            /\ fileProgress' = << >>
            /\ backendLog' = << >>
            /\ batchLog' = batchLog \o
                   << ProgressEvent(idx + 1, Len(validFiles),
                                    validFiles[idx + 1].name, 0),
                      [kind |-> "start", file |-> idx + 1,
                       collected |-> Len(results)] >>
            /\ bpc' = "await"
       ELSE /\ bpc' = "returned"
            /\ UNCHANGED << fileVars, batchLog >>
    /\ UNCHANGED << task, files, pdfVars, analyzeVars, uiVars, scanVars,
                    validateVars, apiVars, idx, validFiles,
                    results, batchError >>

\* the progress events of the batch so far: those of the files collected,
\* and what the callback of the running extraction has passed on
BatchEvents ==
    batchLog \o (IF bpc = "await"
                 THEN Tagged(fileProgress, idx, Len(validFiles), cur.name)
                 ELSE << >>)

\* const result = await extractTextFromFile(...); results.push(result); i++
BatchCollect ==
    /\ bpc = "await" /\ fpc = "settled"
    /\ IF fileOut.state = "fulfilled"
       THEN /\ results' = Collect(results, fileOut.value)
            /\ idx' = NextIndex(idx)
            /\ batchLog' = Append(BatchEvents,
                                  [kind |-> "collect", file |-> idx + 1])
            /\ bpc' = "loop"
            /\ UNCHANGED batchError
       ELSE /\ batchError' = fileOut.error
            /\ batchLog' = BatchEvents
            /\ bpc' = "rejected"
            /\ UNCHANGED << idx, results >>
    /\ fpc' = "idle"
    /\ UNCHANGED << task, files, pdfVars, analyzeVars, uiVars, scanVars,
                    validateVars, apiVars, validFiles, cur,
                    extractedText, processingMethod, caught, fileOut, pdfText,
                    ocrCalls, pageNo, totalPages, fullText, progressVars >>

InitBatch ==
    /\ task = "processMultipleFiles"
    /\ files \in ProcBatches \cup LongBatches
    /\ bpc = "call" /\ idx = 0 /\ validFiles = << >>
    /\ results = << >> /\ batchError = None /\ batchLog = << >>
    /\ ValidateIdle /\ FileIdle /\ ApiIdle /\ ScanIdle /\ UploadIdle
    /\ PdfIdle /\ AnalyzeIdle

NextBatch == BatchStart \/ BatchNext \/ BatchCollect \/ FileStep

SpecBatch == InitBatch /\ [][NextBatch]_vars

----------------------------------------------------------------------------
(* callGeminiAPI *)

\* what one fetch attempt can come to
ReplyKinds ==
    { "ok",             \* a response whose text field parses as JSON
      "network error",  \* fetch rejects
      "http error",     \* !response.ok
      "bad body",       \* response.json() rejects
      "no text",        \* candidates[0].content.parts[0].text is missing
      "bad json" }      \* JSON.parse(text) throws

\* the error the k-th attempt raises for a failed reply
ErrorOf(kind, k) == [text |-> kind, attempt |-> k]

RetriesExhaustedLate(n) == n > DefaultMaxRetries

\* attempt >= maxRetries, tested in the catch block after attempt++
RetriesExhausted(n) == n >= DefaultMaxRetries

KeyMissingIgnored(key) == FALSE

\* if (!apiKey)
KeyMissing(key) == ~key

RetryableUnlessStructural(kind) == kind # "no text"

\* catch (err): every error of the try block is caught alike, whichever
\* statement raised it
Retryable(kind) == TRUE

NextDelaySame(d) == d

\* delay *= 2
NextDelay(d) == d * 2

\* the API key test before the loop
ApiStart ==
    /\ apc = "start"
    /\ IF KeyMissing(apiKey)
       THEN /\ apiOut' = Rejected([text |-> "Gemini API key not configured",
                                   attempt |-> 0])
            /\ apc' = "settled"
            /\ UNCHANGED << attempt, delay >>
       ELSE /\ attempt' = 0
            /\ delay' = InitialDelay
            /\ apc' = "loop"
            /\ UNCHANGED apiOut
    /\ UNCHANGED << task, files, pdfVars, analyzeVars, uiVars, scanVars,
                    validateVars, batchVars, fileVars, apiKey,
                    requests, waits, replies, now, sentAt >>

\* while (attempt < maxRetries) { try { await fetch(...) ...; a loop that
\* runs out falls off the end of the function
ApiLoop ==
    /\ apc = "loop"
    /\ IF attempt < DefaultMaxRetries
       THEN /\ requests' = requests + 1
            /\ sentAt' = Append(sentAt, now)
            /\ apc' = "fetching"
            /\ UNCHANGED apiOut
       ELSE /\ apiOut' = Fulfilled([undefined |-> TRUE])
            /\ apc' = "settled"
            /\ UNCHANGED << requests, sentAt >>
    /\ UNCHANGED << task, files, pdfVars, analyzeVars, uiVars, scanVars,
                    validateVars, batchVars, fileVars, apiKey,
                    attempt, delay, waits, replies, now >>

\* the rest of the try block and the catch block, once the reply is in
ApiReply ==
    /\ apc = "fetching"
    /\ \E kind \in ReplyKinds :
         /\ replies' = Append(replies, kind)
         /\ IF kind = "ok"
            THEN /\ apiOut' = Fulfilled([parsedFrom |-> requests])
                 /\ apc' = "settled"
                 /\ UNCHANGED << attempt, waits >>
            ELSE /\ attempt' = attempt + 1
                 /\ IF RetriesExhausted(attempt + 1) \/ ~Retryable(kind)
                    THEN /\ apiOut' = Rejected(ErrorOf(kind, requests))
                         /\ apc' = "settled"
                         /\ UNCHANGED waits
                    ELSE /\ waits' = Append(waits, delay)
                         /\ apc' = "sleeping"
                         /\ UNCHANGED apiOut
    /\ UNCHANGED << task, files, pdfVars, analyzeVars, uiVars, scanVars,
                    validateVars, batchVars, fileVars, apiKey,
                    delay, requests, now, sentAt >>

\* the timer of the backoff fires, no earlier than delay ms after it was
\* set; delay *= 2. (Time a request takes is not counted: now is a lower
\* bound of the time elapsed.)
ApiWake ==
    /\ apc = "sleeping"
    /\ now' = now + delay
    /\ delay' = NextDelay(delay)
    /\ apc' = "loop"
    /\ UNCHANGED << task, files, pdfVars, analyzeVars, uiVars, scanVars,
                    validateVars, batchVars, fileVars, apiKey,
                    attempt, requests, waits, replies, sentAt, apiOut >>

InitApi ==
    /\ task = "callGeminiAPI"
    /\ files = << >>
    /\ ValidateIdle /\ BatchIdle /\ FileIdle /\ ScanIdle /\ UploadIdle
    /\ PdfIdle /\ AnalyzeIdle
    /\ apiKey \in BOOLEAN
    /\ apc = "start" /\ attempt = 0 /\ delay = 0 /\ requests = 0
    /\ waits = << >> /\ replies = << >> /\ apiOut = Pending
    /\ now = 0 /\ sentAt = << >>

NextApi == ApiStart \/ ApiLoop \/ ApiReply \/ ApiWake

SpecApi == InitApi /\ [][NextApi]_vars

----------------------------------------------------------------------------
(* isScannedPDF *)

\* text items of one page, as textContent.items.map(item => item.str)
ScanPages ==
    { << >>, << Rep("a", 16) >>, << Rep("a", 17) >>,
      << Rep("a", 24), Rep("a", 24) >>, << Rep("a", ScanDetectThreshold) >>,
      << Rep(" ", ScanDetectThreshold) >> }

\* the documents handed to isScannedPDF
ScanDocs == UNION { [1..n -> ScanPages] : n \in 1..MaxScanPages }

RECURSIVE JoinItems(_)
\* items.join(' ')
JoinItems(items) ==
    IF items = << >> THEN << >>
    ELSE IF Len(items) = 1 THEN items[1]
    ELSE items[1] \o <<" ">> \o JoinItems(Tail(items))

MaxPagesToCheckAll(numPages) == numPages

\* Math.min(pdf.numPages, 3)
MaxPagesToCheck(numPages) ==
    IF numPages < ScanSampleLimit THEN numPages ELSE ScanSampleLimit

LooksScannedInclusive(total) == total <= ScanDetectThreshold

\* return totalTextLength < 50
LooksScanned(total) == total < ScanDetectThreshold

ScanCatchRethrows(step) ==
    /\ scanFault' = step
    /\ scanOut' = Rejected(step)
    /\ spc' = "settled"

\* catch (error) { console.warn(...); return false }
ScanCatch(step) ==
    /\ scanFault' = step
    /\ scanOut' = Fulfilled(FALSE)
    /\ spc' = "settled"

\* const pdfjsLib = await loadPdfJs()
ScanLoadPdfJs ==
    /\ spc = "load"
    /\ \/ spc' = "open" /\ UNCHANGED << scanFault, scanOut >>
       \/ ScanCatch("loadPdfJs")
    /\ UNCHANGED << task, files, pdfVars, analyzeVars, uiVars,
                    validateVars, batchVars, fileVars, apiVars,
                    scanDoc, scanIdx, maxPagesToCheck, totalTextLength,
                    pagesRead >>

\* const pdf = await getDocument(...).promise; the locals before the loop
ScanGetDocument ==
    /\ spc = "open"
    /\ \/ /\ totalTextLength' = 0
          /\ maxPagesToCheck' = MaxPagesToCheck(Len(scanDoc))
          /\ scanIdx' = 1
          /\ spc' = "loop"
          /\ UNCHANGED << scanFault, scanOut >>
       \/ /\ ScanCatch("getDocument")
          /\ UNCHANGED << totalTextLength, maxPagesToCheck, scanIdx >>
    /\ UNCHANGED << task, files, pdfVars, analyzeVars, uiVars,
                    validateVars, batchVars, fileVars, apiVars,
                    scanDoc, pagesRead >>

\* the loop test; const page = await pdf.getPage(i); after the loop the
\* return of the comparison
ScanGetPage ==
    /\ spc = "loop"
    /\ IF scanIdx <= maxPagesToCheck
       THEN \/ spc' = "text" /\ UNCHANGED << scanFault, scanOut >>
            \/ ScanCatch("getPage")
       ELSE /\ scanOut' = Fulfilled(LooksScanned(totalTextLength))
            /\ spc' = "settled"
            /\ UNCHANGED scanFault
    /\ UNCHANGED << task, files, pdfVars, analyzeVars, uiVars,
                    validateVars, batchVars, fileVars, apiVars,
                    scanDoc, scanIdx, maxPagesToCheck, totalTextLength,
                    pagesRead >>

\* const textContent = await page.getTextContent(); pageText;
\* totalTextLength += pageText.length; i++
ScanGetTextContent ==
    /\ spc = "text"
    /\ \/ /\ totalTextLength' = totalTextLength + Len(JoinItems(scanDoc[scanIdx]))
          /\ pagesRead' = Append(pagesRead, scanIdx)
          /\ scanIdx' = scanIdx + 1
          /\ spc' = "loop"
          /\ UNCHANGED << scanFault, scanOut >>
       \/ /\ ScanCatch("getTextContent")
          /\ UNCHANGED << totalTextLength, pagesRead, scanIdx >>
    /\ UNCHANGED << task, files, pdfVars, analyzeVars, uiVars,
                    validateVars, batchVars, fileVars, apiVars,
                    scanDoc, maxPagesToCheck >>

\* a caller invokes isScannedPDF on the buffer of any PDF
InitScan ==
    /\ task = "isScannedPDF" /\ files = << >>
    /\ ValidateIdle /\ BatchIdle /\ FileIdle /\ ApiIdle /\ UploadIdle
    /\ PdfIdle /\ AnalyzeIdle
    /\ spc = "load" /\ scanDoc \in ScanDocs /\ scanIdx = 0
    /\ maxPagesToCheck = 0 /\ totalTextLength = 0 /\ pagesRead = << >>
    /\ scanFault = "" /\ scanOut = Pending

NextScan ==
    ScanLoadPdfJs \/ ScanGetDocument \/ ScanGetPage \/ ScanGetTextContent

SpecScan == InitScan /\ [][NextScan]_vars

----------------------------------------------------------------------------
(* EnhancedFileUpload and the App's upload handlers *)

\* what the user may select or drop at once: nothing, text files, or text
\* files with one file of an unsupported type among them
UploadBatches ==
    UNION { BatchesOf(n, {1}, {"text/plain"}) : n \in 0..MaxUploadFiles }
    \cup { fs \in BatchesOf(2, {1}, {"text/plain", "application/zip"}) :
             fs[1].type # fs[2].type }

\* text extracted from a file of a selection
UploadTexts == { <<"a">>, <<"b">> }

\* what extractTextFromFile resolves to for a valid text file of a selection
ExtractionOutcomes(file) ==
    { SuccessResult(file, t, "Direct text reading") : t \in UploadTexts }
    \cup { FailureResult(file, Msg("Failed to read text file", -1, "")) }

RECURSIVE ResultLists(_)
\* the results array of processMultipleFiles: one result per valid file, in
\* the order of the files
ResultLists(fs) ==
    IF fs = << >> THEN { << >> }
    ELSE { << r >> \o rest : r \in ExtractionOutcomes(Head(fs)),
                             rest \in ResultLists(Tail(fs)) }

\* what processMultipleFiles settles to for a selection: it rejects when
\* validation fails or a file's buffer cannot be read, and otherwise resolves
\* to its results array
BatchOutcomes(fs) ==
    LET validation == validateMultipleFiles(fs)
    IN  IF ~validation.success
        THEN { Rejected([text |-> "File validation failed: ",
                         errors |-> validation.errors]) }
        ELSE { Rejected(Msg("The file could not be read", -1, "")) }
             \cup { Fulfilled(r) : r \in ResultLists(validation.validFiles) }

\* '\n\n---\n\n'
Separator == << "\n", "\n", "-", "-", "-", "\n", "\n" >>

RECURSIVE CombineTextsUnseparated(_)
CombineTextsUnseparated(fs) ==
    IF fs = << >> THEN << >>
    ELSE Head(fs).text \o CombineTextsUnseparated(Tail(fs))

RECURSIVE CombineTexts(_)
\* files.map(file => file.text).join('\n\n---\n\n')
CombineTexts(fs) ==
    IF fs = << >> THEN << >>
    ELSE IF Len(fs) = 1 THEN fs[1].text
    ELSE fs[1].text \o Separator \o CombineTexts(Tail(fs))

\* the App's upload state
AppState ==
    [uploadedFiles |-> appUploadedFiles, resume |-> resume,
     uploadError |-> uploadError]

\* the App's upload state becomes a
SetApp(a) ==
    /\ appUploadedFiles' = a.uploadedFiles
    /\ resume' = a.resume
    /\ uploadError' = a.uploadError

\* App.handleFilesProcessed
handleFilesProcessed(a, fs) ==
    [uploadedFiles |-> fs, uploadError |-> EmptyMessage,
     resume |-> CombineTexts(fs)]

\* App.handleUploadError
handleUploadError(a, errorMessage) ==
    [a EXCEPT !.uploadError = errorMessage]

\* results.filter(result => result.success)
SuccessfulResults(rs) == SelectSeq(rs, LAMBDA r : r.success)

\* results.filter(result => !result.success)
FailedResults(rs) == SelectSeq(rs, LAMBDA r : ~r.success)

\* `Some files failed to process: ${errorMessages.join(', ')}`
FailedMessage(failed) ==
    [text |-> "Some files failed to process: ",
     parts |-> [i \in 1..Len(failed) |->
                  [fileName |-> failed[i].fileName, error |-> failed[i].error]]]

\* uploadedFiles.filter((_, i) => i !== index), index counted from 1
RemoveAt(fs, index) ==
    [i \in 1..(Len(fs) - 1) |-> IF i < index THEN fs[i] ELSE fs[i + 1]]

\* handleFileInput / handleDrop call handleFiles, which runs up to its await.
\* (The disabled prop is the App's loading flag, false while no analysis
\* runs; isProcessing does not keep a new selection from being handled.)
HandleFilesStart ==
    /\ task = "upload" /\ uploads < MaxUploads
    /\ \E fs \in UploadBatches :
         IF Len(fs) = 0
         THEN UNCHANGED << isProcessing, uploadedFiles, inFlight, uploads,
                           lastHandler >>
         ELSE /\ isProcessing' = TRUE
              /\ uploadedFiles' = << >>
              /\ inFlight' = Append(inFlight, fs)
              /\ uploads' = uploads + 1
              /\ lastHandler' = "handleFiles: await"
    /\ UNCHANGED << task, files, pdfVars, analyzeVars,
                    validateVars, batchVars, fileVars, apiVars,
                    scanVars, appUploadedFiles, resume, uploadError,
                    lastResults >>

\* processMultipleFiles settles for one of the runs and handleFiles runs from
\* its await to its end
HandleFilesFinish ==
    /\ task = "upload"
    /\ \E k \in 1..Len(inFlight) : \E out \in BatchOutcomes(inFlight[k]) :
         /\ inFlight' = RemoveAt(inFlight, k)
         /\ IF out.state = "rejected"
            THEN /\ SetApp(handleUploadError(AppState, out.error))
                 /\ lastResults' = << >>
                 /\ UNCHANGED uploadedFiles
            ELSE LET successfulResults == SuccessfulResults(out.value)
                     failedResults == FailedResults(out.value)
                     a1 == IF Len(failedResults) > 0
                           THEN handleUploadError(AppState,
                                                  FailedMessage(failedResults))
                           ELSE AppState
                     a2 == IF Len(successfulResults) > 0
                           THEN handleFilesProcessed(a1, successfulResults)
                           ELSE a1
                 IN  /\ SetApp(a2)
                     /\ uploadedFiles' = IF Len(successfulResults) > 0
                                         THEN successfulResults
                                         ELSE uploadedFiles
                     /\ lastResults' = << out.value >>
    /\ isProcessing' = FALSE
    /\ lastHandler' = "handleFiles"
    /\ UNCHANGED << task, files, pdfVars, analyzeVars,
                    validateVars, batchVars, fileVars, apiVars,
                    scanVars, uploads >>

\* the remove button of a listed file
RemoveFile ==
    /\ task = "upload"
    /\ \E index \in 1..Len(uploadedFiles) :
         LET newFiles == RemoveAt(uploadedFiles, index)
         IN  /\ uploadedFiles' = newFiles
             /\ SetApp(handleFilesProcessed(AppState, newFiles))
    /\ lastHandler' = "removeFile"
    /\ UNCHANGED << task, files, pdfVars, analyzeVars,
                    validateVars, batchVars, fileVars, apiVars,
                    scanVars, isProcessing, inFlight, uploads, lastResults >>

\* the Clear All button, shown while files are listed
ClearAllFiles ==
    /\ task = "upload" /\ Len(uploadedFiles) > 0
    /\ uploadedFiles' = << >>
    /\ SetApp(handleFilesProcessed(AppState, << >>))
    /\ lastHandler' = "clearAllFiles"
    /\ UNCHANGED << task, files, pdfVars, analyzeVars,
                    validateVars, batchVars, fileVars, apiVars,
                    scanVars, isProcessing, inFlight, uploads, lastResults >>

\* the App is mounted with the upload component
InitUpload ==
    /\ task = "upload" /\ files = << >>
    /\ ValidateIdle /\ BatchIdle /\ FileIdle /\ ApiIdle /\ ScanIdle
    /\ UploadIdle
    /\ PdfIdle /\ AnalyzeIdle

NextUpload ==
    HandleFilesStart \/ HandleFilesFinish \/ RemoveFile \/ ClearAllFiles

SpecUpload == InitUpload /\ [][NextUpload]_vars

----------------------------------------------------------------------------
(* loadPdfJs *)

\* the operations that call loadPdfJs
PdfOps == { "isScannedPDF", "extractTextFromPDF", "processScannedPDF" }

\* if (!pdfjsLibPromise), widened to load again unless the library is there
NeedsLoadUnlessLoaded(promise, states) ==
    promise = 0 \/ states[promise] # "fulfilled"

\* if (!pdfjsLibPromise): only null is falsy, a promise in any state is not
NeedsLoad(promise, states) == promise = 0

\* the rejected promise a caller finds stored in pdfjsLibPromise, 0 if none
StoredRejected ==
    IF pdfjsLibPromise # 0 /\ scripts[pdfjsLibPromise] = "rejected"
    THEN pdfjsLibPromise ELSE 0

\* an operation calls loadPdfJs() and awaits what it returns: the check,
\* the creation of the promise with its script element and the assignment
\* run without interruption
CallLoadPdfJs(op) ==
    /\ task = "pdfjs"
    /\ Len(pdfCallers) < MaxCallers
    /\ LET need == NeedsLoad(pdfjsLibPromise, scripts)
           loads == IF need THEN Append(scripts, "pending") ELSE scripts
           promise == IF need THEN Len(loads) ELSE pdfjsLibPromise
       IN /\ scripts' = loads
          /\ pdfjsLibPromise' = promise
          /\ pdfCallers' = Append(pdfCallers,
                 [op |-> op, pc |-> "awaiting", holds |-> promise,
                  saw |-> StoredRejected, lib |-> 0])
    /\ UNCHANGED << task, files, analyzeVars, validateVars, batchVars,
                    fileVars, apiVars, scanVars, uiVars >>

\* script.onload of load k: resolve(window.pdfjsLib)
ScriptOnload(k) ==
    /\ task = "pdfjs"
    /\ scripts[k] = "pending"
    /\ scripts' = [scripts EXCEPT ![k] = "fulfilled"]
    /\ UNCHANGED << task, files, analyzeVars, validateVars, batchVars,
                    fileVars, apiVars, scanVars, uiVars, pdfjsLibPromise,
                    pdfCallers >>

\* script.onerror of load k: reject(new Error('Failed to load ...'))
ScriptOnerror(k) ==
    /\ task = "pdfjs"
    /\ scripts[k] = "pending"
    /\ scripts' = [scripts EXCEPT ![k] = "rejected"]
    /\ UNCHANGED << task, files, analyzeVars, validateVars, batchVars,
                    fileVars, apiVars, scanVars, uiVars, pdfjsLibPromise,
                    pdfCallers >>

\* const pdfjsLib = await loadPdfJs() continues in caller c once the promise
\* it was handed has settled: with the library of that load, or in its catch
CallerResumes(c) ==
    /\ task = "pdfjs"
    /\ pdfCallers[c].pc = "awaiting"
    /\ scripts[pdfCallers[c].holds] # "pending"
    /\ LET caller == pdfCallers[c]
       IN pdfCallers' = [pdfCallers EXCEPT ![c] =
              IF scripts[caller.holds] = "fulfilled"
              THEN [caller EXCEPT !.pc = "loaded", !.lib = caller.holds]
              ELSE [caller EXCEPT !.pc = "failed"]]
    /\ UNCHANGED << task, files, analyzeVars, validateVars, batchVars,
                    fileVars, apiVars, scanVars, uiVars, pdfjsLibPromise,
                    scripts >>

InitPdfJs ==
    /\ task = "pdfjs"
    /\ files = << >>
    /\ ValidateIdle /\ BatchIdle /\ FileIdle /\ ApiIdle /\ ScanIdle
    /\ UploadIdle /\ AnalyzeIdle
    /\ PdfIdle

NextPdfJs ==
    \/ \E op \in PdfOps : CallLoadPdfJs(op)
    \/ \E k \in 1..Len(scripts) : ScriptOnload(k)
    \/ \E k \in 1..Len(scripts) : ScriptOnerror(k)
    \/ \E c \in 1..Len(pdfCallers) : CallerResumes(c)

SpecPdfJs == InitPdfJs /\ [][NextPdfJs]_vars

----------------------------------------------------------------------------
(* App: handleAnalyze, handleGenerateQuestions *)

InputsMissing ==
    "Please upload your documents, paste the job description, and select your experience level."
AnalyzeFailed ==
    "Failed to analyze the resume. Please check your connection and try again."
QuestionsFailed == "Couldn't generate questions. Please try again."

\* what a remote call that succeeded can resolve to: an object with the
\* array the handler reads, or an object without it (the response schemas
\* ask for an object and make no property required)
Replies == { "list", "nofield" }

\* response.field || []
FieldOrEmpty(reply, item) == IF reply = "list" THEN << item >> ELSE << >>

\* Promise.all read as fulfilled as soon as the first call is
PromiseAllFulfilledByFirst(run) == run.ats = "ok"

\* Promise.all([getATSScore(...), getInternshipSuggestions(...)]) is
\* fulfilled when both calls are
PromiseAllFulfilled(run) == run.ats = "ok" /\ run.intern = "ok"

\* Promise.all is rejected as soon as one call is
PromiseAllRejected(run) == run.ats = "failed" \/ run.intern = "failed"

\* handleAnalyze up to its await. The handler is taken as callable whenever
\* no analysis is loading; the button that calls it is disabled in addition
\* while an input is missing, which the handler checks again itself.
\* experienceLevel is 'fresher' or 'experienced' and never empty.
HandleAnalyzeStart ==
    /\ task = "analyze"
    /\ ~loading
    /\ IF resume = << >> \/ jobDescription = ""
       THEN /\ appError' = InputsMissing
            /\ analyzeCalls' = 0
            /\ UNCHANGED << loading, analysisResult, internships,
                            interviewQuestions, questionsError, analyzeRun,
                            analyses, questionsEpoch >>
       ELSE /\ analyses < MaxAnalyses
            /\ loading' = TRUE
            /\ appError' = ""
            /\ analysisResult' = << >>
            /\ internships' = << >>
            /\ interviewQuestions' = << >>
            /\ questionsError' = ""
            /\ analyzeRun' = [pc |-> "awaiting", ats |-> "pending",
                              intern |-> "pending", reply |-> ""]
            /\ analyses' = analyses + 1
            /\ analyzeCalls' = 2
            /\ questionsEpoch' = 0
    /\ UNCHANGED << task, files, pdfVars, validateVars, batchVars, fileVars,
                    apiVars, scanVars, uiVars, jobDescription,
                    loadingQuestions, questionRun >>

\* getATSScore's callGeminiAPI returns the parsed response or throws
AtsSettles ==
    /\ task = "analyze"
    /\ analyzeRun.ats = "pending"
    /\ \E outcome \in { "ok", "failed" } :
          analyzeRun' = [analyzeRun EXCEPT !.ats = outcome]
    /\ UNCHANGED << task, files, pdfVars, validateVars, batchVars, fileVars,
                    apiVars, scanVars, uiVars, jobDescription, loading,
                    loadingQuestions, analysisResult, internships,
                    interviewQuestions, appError, questionsError,
                    questionRun, analyses, analyzeCalls, questionsEpoch >>

\* getInternshipSuggestions' callGeminiAPI returns the parsed response or
\* throws
InternshipsSettle ==
    /\ task = "analyze"
    /\ analyzeRun.intern = "pending"
    /\ \/ analyzeRun' = [analyzeRun EXCEPT !.intern = "failed"]
       \/ \E reply \in Replies :
             analyzeRun' = [analyzeRun EXCEPT !.intern = "ok",
                                              !.reply = reply]
    /\ UNCHANGED << task, files, pdfVars, validateVars, batchVars, fileVars,
                    apiVars, scanVars, uiVars, jobDescription, loading,
                    loadingQuestions, analysisResult, internships,
                    interviewQuestions, appError, questionsError,
                    questionRun, analyses, analyzeCalls, questionsEpoch >>

\* handleAnalyze after its await: the two setters, or the catch block, and
\* the finally block
HandleAnalyzeFinish ==
    /\ task = "analyze"
    /\ analyzeRun.pc = "awaiting"
    /\ PromiseAllFulfilled(analyzeRun) \/ PromiseAllRejected(analyzeRun)
    /\ IF PromiseAllFulfilled(analyzeRun)
       THEN /\ analysisResult' = << "atsResponse" >>
            /\ internships' = FieldOrEmpty(analyzeRun.reply, "internship")
            /\ UNCHANGED appError
       ELSE /\ appError' = AnalyzeFailed
            /\ UNCHANGED << analysisResult, internships >>
    /\ loading' = FALSE
    /\ analyzeRun' = [analyzeRun EXCEPT !.pc = "idle"]
    /\ UNCHANGED << task, files, pdfVars, validateVars, batchVars, fileVars,
                    apiVars, scanVars, uiVars, jobDescription,
                    loadingQuestions, interviewQuestions, questionsError,
                    questionRun, analyses, analyzeCalls, questionsEpoch >>

\* the Generate button is part of the results section and is rendered
\* while there are no questions and none are being loaded
GenerateButtonShown ==
    /\ analysisResult # << >>
    /\ interviewQuestions = << >>
    /\ ~loadingQuestions

\* handleGenerateQuestions up to its await
HandleGenerateQuestionsStart ==
    /\ task = "analyze"
    /\ GenerateButtonShown
    /\ loadingQuestions' = TRUE
    /\ questionsError' = ""
    /\ interviewQuestions' = << >>
    /\ questionsEpoch' = 0
    /\ questionRun' = [pc |-> "awaiting", epoch |-> analyses]
    /\ UNCHANGED << task, files, pdfVars, validateVars, batchVars, fileVars,
                    apiVars, scanVars, uiVars, jobDescription, loading,
                    analysisResult, internships, appError, analyzeRun,
                    analyses, analyzeCalls >>

\* handleGenerateQuestions after its await: the setter or the catch block,
\* and the finally block
HandleGenerateQuestionsFinish ==
    /\ task = "analyze"
    /\ questionRun.pc = "awaiting"
    /\ \/ \E reply \in Replies :
             /\ interviewQuestions' = FieldOrEmpty(reply, "question")
             /\ questionsEpoch' =
                    IF reply = "list" THEN questionRun.epoch ELSE 0
             /\ UNCHANGED questionsError
       \/ /\ questionsError' = QuestionsFailed
          /\ UNCHANGED << interviewQuestions, questionsEpoch >>
    /\ loadingQuestions' = FALSE
    /\ questionRun' = [questionRun EXCEPT !.pc = "idle"]
    /\ UNCHANGED << task, files, pdfVars, validateVars, batchVars, fileVars,
                    apiVars, scanVars, uiVars, jobDescription, loading,
                    analysisResult, internships, appError, analyzeRun,
                    analyses, analyzeCalls >>

\* the App after an upload that left resume text, or with none, and with a
\* job description typed in, or none
InitAnalyze ==
    /\ task = "analyze"
    /\ files = << >>
    /\ ValidateIdle /\ BatchIdle /\ FileIdle /\ ApiIdle /\ ScanIdle
    /\ PdfIdle
    /\ isProcessing = FALSE /\ inFlight = << >> /\ uploadError = EmptyMessage
    /\ \E text \in { << >>, << "a" >> } :
         LET file == [name |-> "file1", size |-> 1, type |-> "text/plain"]
             list == IF text = << >> THEN << >>
                     ELSE << SuccessResult(file, text, "Direct text reading") >>
         IN /\ resume = text
            /\ uploadedFiles = list /\ appUploadedFiles = list
            /\ uploads = Len(list)
            /\ lastHandler = IF list = << >> THEN "" ELSE "handleFiles"
            /\ lastResults = IF list = << >> THEN << >> ELSE << list >>
    /\ jobDescription \in { "", "jd" }
    /\ loading = FALSE /\ loadingQuestions = FALSE
    /\ analysisResult = << >> /\ internships = << >>
    /\ interviewQuestions = << >> /\ appError = "" /\ questionsError = ""
    /\ analyzeRun = NoRun /\ questionRun = NoQuestionRun
    /\ analyses = 0 /\ analyzeCalls = 0 /\ questionsEpoch = 0

NextAnalyze ==
    \/ HandleAnalyzeStart
    \/ AtsSettles
    \/ InternshipsSettle
    \/ HandleAnalyzeFinish
    \/ HandleGenerateQuestionsStart
    \/ HandleGenerateQuestionsFinish

SpecAnalyze == InitAnalyze /\ [][NextAnalyze]_vars

----------------------------------------------------------------------------
(* Properties *)

\* the types validateFile lets through, written out
AcceptedTypes ==
    { "application/pdf", "text/plain",
      "application/vnd.openxmlformats-officedocument.wordprocessingml.document",
      "application/msword", "image/png", "image/jpeg", "image/jpg",
      "constructor" }

\* the six types the interface description lists
ListedTypes ==
    { "application/pdf", "text/plain",
      "application/vnd.openxmlformats-officedocument.wordprocessingml.document",
      "application/msword", "image/png", "image/jpeg" }

Invalid(f) == f.size > 10485760 \/ f.type \notin AcceptedTypes

OnlyWhitespace(t) == \A i \in 1..Len(t) : t[i] \in {" ", "\n"}

NoOuterWhitespace(t) ==
    t = << >> \/ (t[1] \notin {" ", "\n"} /\ t[Len(t)] \notin {" ", "\n"})

Succeeded == fileOut.state = "fulfilled" /\ fileOut.value.success

\* C1, as stated: extractTextFromFile never rejects, whatever the file (also
\* one that fails validation) and whatever the buffer read does.
C1_NeverRejects == fileOut.state # "rejected"

\* C1, amended: extractTextFromFile rejects exactly when the file fails
\* validation (with the validation message) or its byte-buffer read fails
\* (with the read error); every error raised after that, inside the try
\* block, comes back as a failure-shaped result carrying that error.
C1_RejectsOnlyOutsideTry ==
    /\ fileOut.state = "rejected" => fpc = "settled" /\ caught = None
    /\ fpc = "settled" =>
         /\ Invalid(cur) =>
              /\ fileOut.state = "rejected"
              /\ fileOut.error.text \in
                   { "File size exceeds 10MB limit. Current size: ",
                     "Unsupported file type: " }
         /\ (~Invalid(cur) /\ fileOut.state = "rejected") =>
              fileOut.error.text = "The file could not be read"
         /\ caught # None =>
              /\ fileOut.state = "fulfilled"
              /\ ~fileOut.value.success
              /\ fileOut.value.error = caught

\* a validated file whose buffer read failed made the promise reject
C1_Witness ==
    /\ fpc = "settled" /\ fileOut.state = "rejected"
    /\ cur.type = "image/png" /\ cur.size = 1
    /\ fileOut.error.text = "The file could not be read"

\* C2, as stated: a batch of at most MAX_FILES files is never rejected as a
\* whole by validation, even when one of its files is oversize or of an
\* unsupported type.
C2_RejectedOnlyWhenTooMany ==
    Len(files) <= MAX_FILES =>
        ~(bpc = "rejected" /\ batchError.text = "File validation failed: ")

\* C2, amended: processMultipleFiles raises the validation failure exactly
\* when the batch holds more than MAX_FILES files or at least one file is
\* oversize or of an unsupported type; then no file is processed and no
\* per-file result is produced; otherwise every file of the batch is
\* accepted for processing.
C2_RejectedIffAnyInvalid ==
    bpc # "call" =>
        LET validationFailed ==
                bpc = "rejected" /\ batchError.text = "File validation failed: "
        IN  /\ validationFailed <=>
                 \/ Len(files) > MAX_FILES
                 \/ \E i \in 1..Len(files) : Invalid(files[i])
            /\ validationFailed =>
                 /\ results = << >> /\ validFiles = << >>
                 /\ fpc = "idle" /\ cur = None
            /\ ~validationFailed => validFiles = files

\* a two-file batch, a valid text file and an oversize one, was rejected whole
C2_Witness ==
    /\ bpc = "rejected" /\ Len(files) = 2
    /\ files[1].type = "text/plain" /\ files[1].size = 1
    /\ files[2].size > MAX_FILE_SIZE
    /\ batchError.text = "File validation failed: "

C4_NoBlankSuccess ==
    /\ Succeeded => ~OnlyWhitespace(fileOut.value.text)
    /\ (fpc = "settled" /\ processingMethod # "" /\ OnlyWhitespace(extractedText)) =>
         /\ fileOut.state = "fulfilled"
         /\ ~fileOut.value.success
         /\ fileOut.value.error.text = "No text content found in the file"

\* a text file holding one blank came back as the no-text-content failure
C4_Witness ==
    /\ fpc = "settled" /\ cur.type = "text/plain"
    /\ extractedText = <<" ">>
    /\ fileOut.state = "fulfilled" /\ ~fileOut.value.success
    /\ fileOut.value.error.text = "No text content found in the file"

\* C5, as stated: the text of every success-shaped result has no leading or
\* trailing whitespace.
C5_SuccessTextTrimmed == Succeeded => NoOuterWhitespace(fileOut.value.text)

\* C5, amended: the text of a success-shaped result is trimmed for PDF, Word
\* and image files; a plain-text file with content S that has non-whitespace
\* content yields a success result whose text is S verbatim, leading and
\* trailing whitespace included, with the direct-read method tag.
C5_TrimmedExceptPlainText ==
    /\ (Succeeded /\ cur.type # "text/plain") =>
         NoOuterWhitespace(fileOut.value.text)
    /\ (fpc = "settled" /\ cur.type = "text/plain" /\ processingMethod # ""
          /\ ~OnlyWhitespace(extractedText)) =>
         /\ Succeeded
         /\ fileOut.value.text = extractedText
         /\ fileOut.value.method = "Direct text reading"

\* a text file with leading whitespace succeeded with that whitespace kept
C5_Witness ==
    /\ Succeeded /\ cur.type = "text/plain"
    /\ fileOut.value.text = <<" ", "a">>

\* C6: for a PDF the scanned-PDF fallback runs (once) if and only if the
\* text-layer extraction returned fewer than 50 characters, and a success
\* result carries the scanned-OCR tag exactly when the fallback ran and the
\* PDF-text-layer tag otherwise.
C6_OcrIffShortTextLayer ==
    cur.type = "application/pdf" =>
        /\ ocrCalls \in {0, 1}
        /\ pdfText = << >> => ocrCalls = 0
        /\ pdfText # << >> => (ocrCalls = 1 <=> Len(pdfText[1]) < 50)
        /\ Succeeded =>
             fileOut.value.method =
                 IF ocrCalls = 1 THEN "OCR (scanned PDF)" ELSE "PDF text extraction"

\* a PDF with a 49-character text layer succeeded through the OCR fallback
C6_Witness ==
    /\ Succeeded /\ cur.type = "application/pdf"
    /\ pdfText # << >> /\ Len(pdfText[1]) = 49
    /\ ocrCalls = 1 /\ fileOut.value.method = "OCR (scanned PDF)"

\* C7: validateMultipleFiles on a batch of more than MAX_FILES files returns
\* failure with no accepted file and exactly one message, the batch-size one;
\* no file of the batch is validated or accepted.
C7_TooManyRejectsWholeBatch ==
    (task = "validateMultipleFiles" /\ vpc = "done" /\ Len(files) > MAX_FILES) =>
        /\ ~vout.success
        /\ vout.validFiles = << >>
        /\ Len(vout.errors) = 1
        /\ vout.errors[1].message.text = "Maximum files allowed"
        /\ vout.errors[1].message.size = Len(files)

\* a batch of MAX_FILES + 1 files, all of them valid, was rejected whole
C7_Witness ==
    /\ task = "validateMultipleFiles" /\ vpc = "done"
    /\ Len(files) = MAX_FILES + 1
    /\ \A i \in 1..Len(files) : ~Invalid(files[i])
    /\ ~vout.success

\* C8: validateFile rejects every file larger than MAX_FILE_SIZE, whatever
\* its type, with the size-limit message, which carries the measured size (in
\* MiB, to two decimals); a file of exactly MAX_FILE_SIZE is not rejected for
\* its size.
C8_OversizeRejectedWithSize ==
    (task = "validateFile" /\ vpc = "done") =>
        LET f == files[1]
            sizeText == "File size exceeds 10MB limit. Current size: "
        IN  /\ f.size > MAX_FILE_SIZE =>
                 /\ ~vout.success
                 /\ vout.message.text = sizeText
                 /\ 2 * (vout.message.size * 1048576 - f.size * 100) <= 1048576
                 /\ 2 * (f.size * 100 - vout.message.size * 1048576) <= 1048576
            /\ f.size = MAX_FILE_SIZE => vout.message.text # sizeText

\* an oversize file of an unsupported type was rejected for its size
C8_Witness ==
    /\ task = "validateFile" /\ vpc = "done"
    /\ files[1].size = 11 * 1024 * 1024 /\ files[1].type = "application/zip"
    /\ vout.message.text = "File size exceeds 10MB limit. Current size: "
    /\ vout.message.size = 1100

\* C9, as stated: a file within the size limit is accepted if and only if its
\* type is one of the six listed types.
C9_ExactlySixTypes ==
    (task = "validateFile" /\ vpc = "done" /\ files[1].size <= MAX_FILE_SIZE) =>
        (vout.success <=> files[1].type \in ListedTypes)

\* C9, amended: a file within the size limit is accepted if and only if its
\* type is one of the seven keys of the type table (the six listed types and
\* image/jpg) or names a property the table inherits (constructor); every
\* other type is rejected with the message naming that type.
C9_AcceptedIffTableHasType ==
    (task = "validateFile" /\ vpc = "done" /\ files[1].size <= MAX_FILE_SIZE) =>
        /\ vout.success <=> files[1].type \in AcceptedTypes
        /\ ~vout.success =>
             /\ vout.message.text = "Unsupported file type: "
             /\ vout.message.type = files[1].type

\* a file declared image/jpg was accepted
C9_Witness ==
    /\ task = "validateFile" /\ vpc = "done"
    /\ files[1].type = "image/jpg" /\ vout.success

\* C10: one callGeminiAPI call issues at most 3 requests and none after a
\* successful one; when every attempt fails it makes exactly 3 attempts and
\* rejects with the error of the third.
C10_AtMostThreeAttempts ==
    /\ requests <= 3
    /\ \A k \in 1..Len(replies) :
         replies[k] = "ok" => (k = Len(replies) /\ requests = k /\ apc = "settled")
    /\ (apc = "settled" /\ apiKey /\ \A k \in 1..Len(replies) : replies[k] # "ok") =>
         /\ requests = 3 /\ Len(replies) = 3
         /\ apiOut.state = "rejected"
         /\ apiOut.error = [text |-> replies[3], attempt |-> 3]

\* three attempts failed in three different ways and the call rejected
C10_Witness ==
    /\ apc = "settled" /\ apiOut.state = "rejected"
    /\ replies = <<"network error", "http error", "bad json">>
    /\ requests = 3

\* 2 to the power n
Pow2(n) == IF n = 0 THEN 1 ELSE IF n = 1 THEN 2 ELSE IF n = 2 THEN 4 ELSE 8

\* C11: the wait scheduled after the k-th failed attempt is 1000 * 2^(k-1) ms,
\* there is one wait per failed attempt but the last, none after the final
\* failed attempt; a request that follows k failed attempts is issued only
\* after all k waits have elapsed, so the third request comes no earlier than
\* 1000 + 2000 ms after the first, and when it succeeds its parsed result is
\* the call's result.
C11_BackoffDoubles ==
    /\ \A k \in 1..Len(waits) : waits[k] = 1000 * Pow2(k - 1)
    /\ Len(waits) <= 2
    /\ apc = "settled" /\ apiOut.state = "rejected" => Len(waits) = attempt - 1 \/ ~apiKey
    /\ \A k \in 1..Len(sentAt) :
         /\ Len(waits) >= k - 1
         /\ sentAt[k] - sentAt[1] >= IF k = 1 THEN 0 ELSE IF k = 2 THEN 1000 ELSE 3000
    /\ (apc = "settled" /\ Len(replies) = 3 /\ replies[3] = "ok") =>
         /\ apiOut = [state |-> "fulfilled", value |-> [parsedFrom |-> 3]]
         /\ waits = <<1000, 2000>>

\* two attempts failed, the third succeeded after waits of 1000 and 2000 ms
C11_Witness ==
    /\ apc = "settled" /\ apiOut.state = "fulfilled"
    /\ replies = <<"http error", "network error", "ok">>
    /\ sentAt = <<0, 1000, 3000>>

\* C12, as stated: a response without the nested text field ends the call at
\* once: no request follows it and no backoff wait is scheduled for it.
C12_NoRetryOnMissingText ==
    \A k \in 1..Len(replies) :
        replies[k] = "no text" =>
            /\ requests = k
            /\ Len(waits) < k
            /\ apc = "settled"

\* C12, amended: a response without the nested text field is handled like
\* any other failed attempt: while attempts remain (attempts 1 and 2) the
\* backoff wait is scheduled and the call is not failed by it; only on the
\* last attempt (3) does the call reject, with the structural error.
C12_MissingTextIsRetried ==
    \A k \in 1..Len(replies) :
        replies[k] = "no text" =>
            IF k < 3
            THEN /\ Len(waits) >= k
                 /\ apiOut.state = "rejected" => apiOut.error.attempt > k
                 /\ apc = "settled" => requests > k
            ELSE apiOut = [state |-> "rejected",
                           error |-> [text |-> "no text", attempt |-> 3]]

\* the first response lacked the text field and a second request was issued
C12_Witness ==
    /\ Len(replies) >= 1 /\ replies[1] = "no text"
    /\ requests = 2 /\ waits = <<1000>>

\* C13: without an API key callGeminiAPI rejects with the configuration
\* error and issues no request and schedules no wait.
C13_NoKeyNoRequest ==
    ~apiKey =>
        /\ requests = 0 /\ sentAt = << >> /\ replies = << >> /\ waits = << >>
        /\ apc \in {"start", "settled"}
        /\ apc = "settled" =>
             /\ apiOut.state = "rejected"
             /\ apiOut.error.text = "Gemini API key not configured"

\* a call without an API key has rejected
C13_Witness == ~apiKey /\ apc = "settled" /\ apiOut.state = "rejected"

\* the fields of a failure-shaped result
FailureFields == { "success", "error", "fileName", "fileSize", "fileType" }

\* C16: when an error is raised inside extractTextFromFile's try block for a
\* validated file (an extractor fails, or the content is blank), the call
\* returns a failure-shaped result: success false, a non-empty error string,
\* the input file's fileName, fileSize and fileType, and no text or method
\* field.
C16_ExtractorFailureIsFailureShaped ==
    caught # None =>
        /\ validateFile(cur).success
        /\ fpc = "settled"
        /\ fileOut.state = "fulfilled"
        /\ DOMAIN fileOut.value = FailureFields
        /\ ~fileOut.value.success
        /\ fileOut.value.error = caught
        /\ fileOut.value.error.text # ""
        /\ fileOut.value.fileName = cur.name
        /\ fileOut.value.fileSize = cur.size
        /\ fileOut.value.fileType = cur.type

\* OCR of an image file failed
C16_Witness ==
    /\ fpc = "settled" /\ cur.type = "image/jpeg" /\ cur.size = MAX_FILE_SIZE
    /\ caught # None
    /\ caught.text = "Failed to extract text from image: "
    /\ fileOut.state = "fulfilled" /\ ~fileOut.value.success

\* how many times character c occurs in s
CountOf(c, s) == Cardinality({ i \in 1..Len(s) : s[i] = c })

\* the error of a failed scanned-PDF fallback
ScannedPdfFailed ==
    caught # None /\ caught.text = "Failed to process scanned PDF: "

\* C18: in the scanned-PDF fallback a failure on any page fails the whole
\* document: the call is over at the failing page (no later page is
\* processed), the result is failure-shaped and carries no text of the pages
\* read before; and a fallback that did return has appended one block for
\* every page of the document, so no page was skipped.
C18_PageFailureFailsDocument ==
    /\ ScannedPdfFailed =>
         /\ fpc = "settled"
         /\ pageNo \in 1..totalPages
         /\ CountOf("\n", fullText) = 2 * (pageNo - 1)
         /\ extractedText = << >> /\ processingMethod = ""
         /\ fileOut.state = "fulfilled"
         /\ ~fileOut.value.success
         /\ DOMAIN fileOut.value = FailureFields
    /\ fpc = "ocr" => CountOf("\n", fullText) = 2 * (pageNo - 1)
    /\ processingMethod = "OCR (scanned PDF)" =>
         /\ pageNo = totalPages
         /\ CountOf("\n", fullText) = 2 * totalPages

\* page 1 of a two-page scanned PDF was read, page 2 failed
C18_Witness ==
    /\ ScannedPdfFailed /\ fpc = "settled"
    /\ totalPages = 2 /\ pageNo = 2 /\ fullText = <<"a", "\n", "\n">>
    /\ ~fileOut.value.success

RECURSIVE SampleChars(_, _)
\* characters of the text layers of the first n pages of doc
SampleChars(doc, n) ==
    IF n = 0 THEN 0 ELSE SampleChars(doc, n - 1) + Len(JoinItems(doc[n]))

\* C14: isScannedPDF never rejects; when one of its awaits fails (loading
\* the PDF backend, opening the document, getting a page, getting a page's
\* text content) it has returned false.
C14_ScanNeverThrows ==
    /\ scanOut.state # "rejected"
    /\ scanFault # "" =>
         /\ spc = "settled"
         /\ scanOut = [state |-> "fulfilled", value |-> FALSE]

\* the text content of page 2 failed to load, after page 1 alone made the
\* document look like a text PDF
C14_Witness ==
    /\ scanFault = "getTextContent" /\ pagesRead = <<1>>
    /\ totalTextLength = 50
    /\ scanOut.state = "fulfilled" /\ scanOut.value = FALSE

\* C15: isScannedPDF reads the pages 1, 2, ... in order and never a page
\* past min(numPages, 3); when no await failed it has read exactly the first
\* min(numPages, 3) pages and returns true iff their text layers hold fewer
\* than 50 characters in total, whatever the later pages hold.
C15_SamplesFirstThreePages ==
    LET n == IF Len(scanDoc) < 3 THEN Len(scanDoc) ELSE 3
    IN  /\ Len(pagesRead) <= n
        /\ \A k \in 1..Len(pagesRead) : pagesRead[k] = k
        /\ (spc = "settled" /\ scanFault = "") =>
             /\ Len(pagesRead) = n
             /\ scanOut.state = "fulfilled"
             /\ scanOut.value = (SampleChars(scanDoc, n) < 50)

\* a four-page document whose first three pages hold 49 characters and whose
\* fourth page holds 50 is reported as scanned
C15_Witness ==
    /\ spc = "settled" /\ scanFault = "" /\ Len(scanDoc) = 4
    /\ SampleChars(scanDoc, 3) = 49 /\ Len(JoinItems(scanDoc[4])) = 50
    /\ pagesRead = <<1, 2, 3>>
    /\ scanOut.state = "fulfilled" /\ scanOut.value = TRUE

\* the results of the handleFiles run that finished last, when it is the
\* handler that ran last and its batch was processed
LastBatch == IF lastHandler = "handleFiles" /\ lastResults # << >>
             THEN lastResults[1] ELSE << >>

RECURSIVE TextsJoined(_, _)
\* the texts of the successful ones of the first n results, each followed
\* by the separator
TextsJoined(rs, n) ==
    IF n = 0 THEN << >>
    ELSE TextsJoined(rs, n - 1) \o
         (IF rs[n].success
          THEN rs[n].text \o << "\n", "\n", "-", "-", "-", "\n", "\n" >>
          ELSE << >>)

\* C17: when a handleFiles run has processed a batch with at least one
\* successful result, the resume text it hands over is the texts of exactly
\* the successful results, each once, in the order of the selection, with
\* the separator between consecutive texts; failed results add nothing.
C17_ResumeIsJoinOfSuccesses ==
    (\E i \in 1..Len(LastBatch) : LastBatch[i].success) =>
        /\ resume \o << "\n", "\n", "-", "-", "-", "\n", "\n" >>
             = TextsJoined(LastBatch, Len(LastBatch))
        /\ Len(appUploadedFiles) =
             Cardinality({ i \in 1..Len(LastBatch) : LastBatch[i].success })

\* of three files the second failed; the first and third texts are joined
C17_Witness ==
    /\ Len(LastBatch) = 3
    /\ LastBatch[1].success /\ ~LastBatch[2].success /\ LastBatch[3].success
    /\ resume = << "b", "\n", "\n", "-", "-", "-", "\n", "\n", "a" >>

\* C19, as stated: while no batch is in flight the App's resume text is the
\* separator-join of the texts of the files the upload component lists.
C19_ResumeMatchesListedFiles ==
    inFlight = << >> =>
        resume \o << "\n", "\n", "-", "-", "-", "\n", "\n" >>
          = TextsJoined(uploadedFiles, Len(uploadedFiles))
            \o (IF uploadedFiles = << >>
                THEN << "\n", "\n", "-", "-", "-", "\n", "\n" >> ELSE << >>)

\* C20, as stated: after a handleFiles run whose batch had a failed file,
\* uploadError is non-empty and names every failed file with its error.
C20_FailedFilesAreNamed ==
    (\E i \in 1..Len(LastBatch) : ~LastBatch[i].success) =>
        /\ uploadError.text # ""
        /\ \A i \in 1..Len(LastBatch) :
             ~LastBatch[i].success =>
                 \E j \in 1..Len(uploadError.parts) :
                     /\ uploadError.parts[j].fileName = LastBatch[i].fileName
                     /\ uploadError.parts[j].error = LastBatch[i].error

\* C22, as stated: at most one handleFiles run awaits its batch at any time,
\* and isProcessing is true exactly while one does.
C22_OneBatchInFlight ==
    /\ Len(inFlight) <= 1
    /\ isProcessing <=> inFlight # << >>

\* the entries of kind k among the first n entries of log
CountKind(log, k, n) == Cardinality({ j \in 1..n : log[j].kind = k })

\* C21: within one processMultipleFiles call the extractions run one at a
\* time: the j-th extraction started is that of file j, it starts only when
\* the results of the j - 1 files before it have been collected, an
\* extraction that is running is the only one started and not yet collected,
\* and a call that returns has started and collected every file.
C21_OneExtractionAtATime ==
    InBatch =>
        /\ \A k \in 1..Len(batchLog) :
             batchLog[k].kind = "start" =>
                 /\ batchLog[k].file = CountKind(batchLog, "start", k)
                 /\ batchLog[k].collected = batchLog[k].file - 1
                 /\ CountKind(batchLog, "collect", k) = batchLog[k].file - 1
        /\ CountKind(batchLog, "start", Len(batchLog))
             - CountKind(batchLog, "collect", Len(batchLog)) \in {0, 1}
        /\ fpc \notin {"idle", "settled"} =>
             /\ bpc = "await"
             /\ Len(results) = idx
             /\ cur = validFiles[idx + 1]
             /\ CountKind(batchLog, "start", Len(batchLog)) = idx + 1
             /\ CountKind(batchLog, "collect", Len(batchLog)) = idx
        /\ bpc = "returned" =>
             /\ CountKind(batchLog, "start", Len(batchLog)) = Len(validFiles)
             /\ CountKind(batchLog, "collect", Len(batchLog)) = Len(validFiles)

\* the second file is being extracted, the first has been collected
C21_Witness ==
    /\ InBatch /\ bpc = "await" /\ idx = 1 /\ fpc = "switch"
    /\ Len(results) = 1
    /\ \E k \in 1..Len(batchLog) :
         batchLog[k] = [kind |-> "collect", file |-> 1]

\* C24: every progress event of a batch carries totalFiles equal to the
\* number of accepted files, a 1-based index and the name of the file at
\* that index; it is emitted while that file is the one being handled: the
\* file's first event has progress 0 and comes right before its extraction
\* starts, its other events come after that start and before its result is
\* collected; so the indices never decrease, and a batch that returns has
\* reported every index from 1 to N.
C24_ProgressEventsTagged ==
    InBatch =>
        LET E == BatchEvents
            N == Len(validFiles)
            IsProgress(k) == E[k].kind = "progress"
        IN  /\ \A k \in 1..Len(E) :
                 IsProgress(k) =>
                     /\ E[k].totalFiles = N
                     /\ E[k].currentFile \in 1..N
                     /\ E[k].fileName = validFiles[E[k].currentFile].name
                     /\ E[k].currentFile = CountKind(E, "collect", k) + 1
                     /\ \A j \in 1..k :
                          IsProgress(j) => E[j].currentFile <= E[k].currentFile
            /\ \A k \in 1..Len(E) :
                 E[k].kind = "start" =>
                     /\ k > 1
                     /\ IsProgress(k - 1)
                     /\ E[k - 1].currentFile = E[k].file
                     /\ E[k - 1].progress = 0
                     /\ \A j \in 1..(k - 2) :
                          IsProgress(j) => E[j].currentFile < E[k].file
            /\ bpc = "returned" =>
                 \A i \in 1..N :
                     \E k \in 1..Len(E) :
                         IsProgress(k) /\ E[k].currentFile = i

\* a batch of two files has returned; the OCR of the second, an image,
\* reported 50
C24_Witness ==
    /\ InBatch /\ bpc = "returned" /\ Len(validFiles) = 2
    /\ \E k \in 1..Len(batchLog) :
         batchLog[k] = [kind |-> "progress", currentFile |-> 2,
                        totalFiles |-> 2, fileName |-> "file2",
                        progress |-> 50]

\* v is x / y rounded to the nearest integer, halves upwards (x >= 0, y > 0)
IsRounded(v, x, y) == 2 * y * v <= 2 * x + y /\ 2 * x + y < 2 * y * (v + 1)

\* the stream is not empty, lies in 0..100, never decreases and ends in 100
RisesTo100(stream) ==
    /\ stream # << >>
    /\ \A k \in 1..Len(stream) : stream[k] \in 0..100
    /\ \A k \in 1..(Len(stream) - 1) : stream[k] <= stream[k + 1]
    /\ stream[Len(stream)] = 100

\* C25, as stated: for every file extractTextFromFile handles successfully,
\* whatever its format, the values passed to its progress callback lie in
\* 0..100, never decrease and end with 100.
C25_EveryStreamEndsAt100 ==
    (Succeeded /\ onProgress) => RisesTo100(fileProgress)

\* C25, amended: only the scanned-PDF fallback reports such a stream: 0,
\* then for each page i of N the value 100 * (i - 1) / N rounded, then 100.
\* For an image file the stream is 0 followed by one value of 0..100 for each
\* recognizing-phase event of the OCR backend, in whatever order and up to
\* whatever value the backend reports. For plain text, Word and PDF with a
\* text layer no value is reported at all, and none is without a callback.
C25_StreamPerFormat ==
    Succeeded =>
        IF ~onProgress THEN fileProgress = << >>
        ELSE IF fileOut.value.method = "OCR (scanned PDF)"
        THEN /\ Len(fileProgress) = totalPages + 2
             /\ fileProgress[1] = 0
             /\ \A i \in 1..totalPages :
                  IsRounded(fileProgress[i + 1], 100 * (i - 1), totalPages)
             /\ RisesTo100(fileProgress)
        ELSE IF fileOut.value.method = "OCR (image)"
        THEN /\ fileProgress # << >>
             /\ fileProgress[1] = 0
             /\ Len(fileProgress) - 1 =
                  Cardinality({ k \in 1..Len(backendLog) :
                                  backendLog[k].status = "recognizing text" })
             /\ \A k \in 1..Len(fileProgress) : fileProgress[k] \in 0..100
        ELSE fileProgress = << >>

\* a scanned PDF of two pages was read by OCR
C25_Witness ==
    /\ Succeeded /\ onProgress /\ totalPages = 2
    /\ fileOut.value.method = "OCR (scanned PDF)"
    /\ fileProgress = << 0, 0, 50, 100 >>

RECURSIVE RecognizingValues(_)
\* for each recognizing-phase event of log, in order, its fraction (given in
\* thousandths) as a percentage rounded to the nearest integer
RecognizingValues(log) ==
    IF log = << >> THEN << >>
    ELSE (IF Head(log).status = "recognizing text"
          THEN << CHOOSE v \in 0..100 : IsRounded(v, Head(log).progress, 10) >>
          ELSE << >>)
         \o RecognizingValues(Tail(log))

\* C26: for an image file the callback receives, after the initial 0 of
\* extractTextFromFile, exactly the rounded percentages of the backend's
\* recognizing-phase events, in order, and nothing for events of another
\* phase; without a callback nothing is reported; and the backend events of
\* the per-page OCR of a scanned PDF, which is given no callback, add
\* nothing to the file's stream.
C26_OnlyRecognizingForwarded ==
    /\ (cur # None /\ cur.type \in ImageTypes
        /\ fpc \in {"recognize", "check", "settled"}
        /\ fileOut.state # "rejected") =>
           fileProgress = IF onProgress
                          THEN << 0 >> \o RecognizingValues(backendLog)
                          ELSE << >>
    /\ fpc = "ocr" =>
           Len(fileProgress) = IF onProgress THEN pageNo ELSE 0

\* during the OCR of an image the backend reported its loading phase and then
\* a recognizing fraction of 0.005
C26_Witness ==
    /\ fpc = "recognize" /\ onProgress
    /\ backendLog = << [status |-> "loading tesseract core", progress |-> 1000],
                       [status |-> "recognizing text", progress |-> 5] >>
    /\ fileProgress = << 0, 1 >>

\* the text of every page of the document handed to isScannedPDF
ScanPageTexts == [i \in 1..Len(scanDoc) |-> JoinItems(scanDoc[i])]

\* isScannedPDF has returned for a document of at most 3 pages that parsed
ScanReturnedShort ==
    spc = "settled" /\ scanFault = "" /\ Len(scanDoc) <= 3

\* C30, as stated: for a PDF of at most 3 pages that parses, isScannedPDF
\* returns true exactly when extractTextFromFile would fall back to OCR.
C30_DetectorAgreesWithExtractor ==
    ScanReturnedShort =>
        scanOut.value = NeedsOcr(extractTextFromPDF(ScanPageTexts))

\* C30, amended: the verdicts agree for a one-page PDF whose text has no
\* leading or trailing whitespace. In general the extractor measures another
\* length: it counts a newline for each page boundary and drops leading and
\* trailing whitespace; when the first and the last page are not empty and
\* have no outer whitespace, its length is the detector's sum plus
\* numPages - 1.
C30_AgreeOnOnePage ==
    ScanReturnedShort =>
        LET texts == ScanPageTexts
            n == Len(scanDoc)
            extracted == extractTextFromPDF(texts)
        IN  /\ (n = 1 /\ NoOuterWhitespace(texts[1])) =>
                 scanOut.value = NeedsOcr(extracted)
            /\ (texts[1] # << >> /\ NoOuterWhitespace(texts[1])
                /\ texts[n] # << >> /\ NoOuterWhitespace(texts[n])) =>
                 /\ Len(extracted) = SampleChars(scanDoc, n) + n - 1
                 /\ scanOut.value = (Len(extracted) - (n - 1) < 50)

\* three pages of 16, 16 and 17 characters: the detector says scanned, the
\* extractor reads 51 characters and does not fall back
C30_Witness ==
    /\ ScanReturnedShort /\ Len(scanDoc) = 3
    /\ SampleChars(scanDoc, 3) = 49
    /\ scanOut.value = TRUE
    /\ Len(extractTextFromPDF(ScanPageTexts)) = 51
    /\ ~NeedsOcr(extractTextFromPDF(ScanPageTexts))

\* the PDF operations that were handed the promise of load k
CallersOf(k) == { c \in 1..Len(pdfCallers) : pdfCallers[c].holds = k }

\* C23: however the PDF operations (scan detection, text extraction,
\* scanned-PDF OCR) and the script events interleave, first calls that
\* overlap while the script is still loading included, the script load
\* is started at most once, every caller is handed the promise of that
\* one load, and every caller that got the library got the same one.
C23_SingleLoadSharedHandle ==
    /\ Len(scripts) <= 1
    /\ CallersOf(1) = 1..Len(pdfCallers)
    /\ \A c \in 1..Len(pdfCallers) :
          pdfCallers[c].pc = "loaded" => pdfCallers[c].lib = 1

\* C23 witness: three operations of different kinds have called the
\* loader while the script of the first call was still loading, and all
\* three await the promise of the one load.
C23_Witness ==
    /\ Len(pdfCallers) = 3
    /\ { pdfCallers[c].op : c \in 1..3 } = PdfOps
    /\ \A c \in 1..3 : pdfCallers[c].pc = "awaiting"
    /\ CallersOf(1) = 1..3
    /\ scripts = << "pending" >>

\* C29: a PDF operation that is called after a load of the script has
\* failed is handed the promise of a fresh load, not the rejected one.
C29_FailedLoadIsRetried ==
    \A c \in 1..Len(pdfCallers) :
        pdfCallers[c].saw # 0 => pdfCallers[c].holds > pdfCallers[c].saw

\* what holds of the analysis state in every state
AnalyzeOutcome ==
    /\ analyzeRun.pc = "awaiting" =>
          /\ loading
          /\ analysisResult = << >> /\ internships = << >>
          /\ appError = ""
    /\ analysisResult # << >> \/ internships # << >> =>
          analyzeRun.ats = "ok" /\ analyzeRun.intern = "ok"
    /\ analyzeRun.pc = "idle" =>
          /\ ~loading
          /\ analyzeRun.ats = "failed" \/ analyzeRun.intern = "failed" =>
                /\ analysisResult = << >> /\ internships = << >>
                /\ appError = AnalyzeFailed
    /\ resume = << >> \/ jobDescription = "" =>
          analyzeRun = NoRun /\ analyzeCalls = 0

\* what a handleAnalyze call that passes its input check does first
AnalyzeClears ==
    analyses' > analyses =>
        /\ loading'
        /\ analysisResult' = << >> /\ internships' = << >>
        /\ interviewQuestions' = << >>
        /\ appError' = "" /\ questionsError' = ""

\* C27: handleAnalyze first clears the previous analysis, internships,
\* questions and both error messages; the analysis result and the
\* internship list are set only when both remote calls succeeded; when
\* either call failed the result is null, the list is empty and the
\* error message is set; loading is false once the handler has finished;
\* and with an empty resume text or job description no remote call is
\* issued.
C27_AnalyzeAllOrNothing == []AnalyzeOutcome /\ [][AnalyzeClears]_vars

\* C27 witness: a second analysis, started over the result of a first
\* one, has finished after its score call succeeded and its internship
\* call failed.
C27_Witness ==
    /\ analyses = 2 /\ analyzeRun.pc = "idle"
    /\ analyzeRun.ats = "ok" /\ analyzeRun.intern = "failed"
    /\ analysisResult = << >> /\ internships = << >>
    /\ appError = AnalyzeFailed /\ ~loading

\* C28: questions on display come from a request that was started after
\* the latest analysis began; a request from before it cannot fill the
\* list that the analysis cleared.
C28_NoStaleQuestions ==
    interviewQuestions # << >> => questionsEpoch = analyses

====
